---- MODULE Spec2Model ----
(***************************************************************************)
(* cffm: typed, nested configuration schema (Config / Section instances   *)
(* with a frozen flag held in a ConfigOptions object) and the             *)
(* MultiSourceConfig engine that merges the instances loaded from an      *)
(* ordered list of sources.                                                *)
(*                                                                         *)
(* Python values are written as their literals: 0, 1, True, False and the *)
(* strings '1', 'x'; MISSING is the absent sentinel.                       *)
(***************************************************************************)
EXTENDS Integers, Sequences, FiniteSets, TLC

VARIABLES
    defaults,   \* the schema's __defaults__ : ConfigOptions(frozen, strict)
    cvals,      \* a Config instance tree: data field -> stored value
    __options__, \* obj: instance -> the ConfigOptions object it holds; frozen: object -> flag
    __parent__, \* section -> the instance its __parent__ attribute refers to
    blocks,     \* active `with unfrozen(cfg)` blocks, innermost first
    sources,    \* MultiSourceConfig.__sources__
    configs,    \* MultiSourceConfig.__configs__ (insertion-ordered dict)
    merged,     \* MultiSourceConfig.__merged_config__
    __frozen__, \* instance -> its __frozen__ attribute, "unset" while it has none
    last,       \* the operation just performed and its arguments
    err         \* its outcome: "ok" or the exception raised

vars == <<defaults, cvals, __options__, __parent__, blocks, __frozen__, sources, configs, merged, last, err>>

cfgVars == <<cvals, __options__, __parent__, blocks, __frozen__>>
engVars == <<sources, configs, merged>>

(***************************************************************************)
(* Bounds                                                                  *)
(***************************************************************************)
MaxSources == 2
MaxBlocks == 2
MaxEdits == 1

(***************************************************************************)
(* The schema: root{timeout: int, tls{cert{enabled: bool}},               *)
(*                  auth{retries: int}}                                    *)
(***************************************************************************)
MISSING == "MISSING"

Instances == {"root", "tls", "cert", "auth"}
Sections == Instances \ {"root"}
DataFields == {"timeout", "enabled", "retries"}

\* the instance whose class declares the section (Section.__parent_cls__):
\* its vars() hold the section, and it is the one that builds the section
\* when the section is not given as an instance
Holder(inst) ==
    CASE inst = "tls" -> "root"
      [] inst = "cert" -> "tls"
      [] inst = "auth" -> "root"

\* the instances of the tree a Section instance is taken from that are not
\* instances of the new tree: the donor's instance at the place of inst
DonorOf(inst) ==
    CASE inst = "root" -> "donor.root"
      [] inst = "tls" -> "donor.tls"

\* the instance whose vars() hold the field (Field.config_cls)
Owner(field) ==
    CASE field = "timeout" -> "root"
      [] field = "enabled" -> "cert"
      [] field = "retries" -> "auth"
      [] OTHER -> Holder(field)

\* Field.type of the data fields
FieldType(field) == IF field = "enabled" THEN "bool" ELSE "int"

\* cls.__fields__, in declaration order: annotated data fields, then sections
FieldsOf(inst) ==
    CASE inst = "root" -> <<"timeout", "tls", "auth">>
      [] inst = "tls" -> <<"cert">>
      [] inst = "cert" -> <<"enabled">>
      [] inst = "auth" -> <<"retries">>

SeqRange(s) == {s[i] : i \in 1..Len(s)}

\* Config.__field_instance_mapping__ : the fields reachable from an instance
RECURSIVE FieldMapping(_)
FieldMapping(inst) ==
    SeqRange(FieldsOf(inst)) \cup
    UNION {FieldMapping(s) : s \in SeqRange(FieldsOf(inst)) \cap Sections}

\* __field_instance_mapping__ of every instance of the tree
Mapping == [inst \in Instances |-> FieldMapping(inst)]

\* the (path, field) pairs of the data fields, own fields before sections
RECURSIVE recurse_fields(_)
recurse_fields(inst) ==
    LET fs == FieldsOf(inst)
        own == SelectSeq(fs, LAMBDA f : f \in DataFields)
        secs == SelectSeq(fs, LAMBDA f : f \in Sections)
        RECURSIVE Down(_)
        Down(ss) == IF ss = <<>> THEN <<>>
                    ELSE recurse_fields(Head(ss)) \o Down(Tail(ss))
    IN own \o Down(secs)

\* recurse_fields(config) of a root instance
DataPaths == recurse_fields("root")

(***************************************************************************)
(* Values and DataField.convert                                            *)
(***************************************************************************)
PyValues == {"0", "1", "'1'", "'x'"}
ValueError == "ValueError"

\* int(value)
PyInt(value) ==
    CASE value \in {"0", "False"} -> "0"
      [] value \in {"1", "True", "'1'"} -> "1"
      [] OTHER -> ValueError

\* bool(value): only 0 and False are falsy among PyValues
PyBool(value) == IF value \in {"0", "False"} THEN "False" ELSE "True"

convert(field, value) ==
    IF value = MISSING THEN MISSING
    ELSE IF FieldType(field) = "int" THEN PyInt(value)
    ELSE PyBool(value)


(***************************************************************************)
(* Construction: Config.__init__ / Section.__init__ with keyword values.   *)
(* kwargs is [vals: data field -> raw value or MISSING (not supplied),     *)
(*            extra: the instances whose keyword dict holds an undeclared  *)
(*                   name,                                                 *)
(*            adopt: the sections given as Section instances, which        *)
(*                   SectionField.__set__ stores without constructing]     *)
(***************************************************************************)
\* the mutant: a section is built with options of its own (strict left at
\* the ConfigOptions default, False) instead of its parent's
RECURSIVE InitSectionsOwnOptions(_, _, _)
InitSectionsOwnOptions(inst, kwargs, strict) ==
    LET RECURSIVE Walk(_)
        Walk(fs) ==
            IF fs = <<>> THEN
                IF strict /\ inst \in kwargs.extra THEN "TypeError" ELSE "ok"
            ELSE LET f == Head(fs)
                     r == IF f \in DataFields
                          THEN IF convert(f, kwargs.vals[f]) = ValueError
                               THEN "ValueError" ELSE "ok"
                          ELSE IF f \in kwargs.adopt THEN "ok"
                          ELSE InitSectionsOwnOptions(f, kwargs, FALSE)
                 IN IF r # "ok" THEN r ELSE Walk(Tail(fs))
    IN Walk(FieldsOf(inst))

\* the exception Config.__init__ raises for an instance, or "ok"
RECURSIVE Config__init__(_, _, _)
Config__init__(inst, kwargs, strict) ==
    LET RECURSIVE Walk(_)
        Walk(fs) ==
            IF fs = <<>> THEN
                IF strict /\ inst \in kwargs.extra THEN "TypeError" ELSE "ok"
            ELSE LET f == Head(fs)
                     r == IF f \in DataFields
                          THEN IF convert(f, kwargs.vals[f]) = ValueError
                               THEN "ValueError" ELSE "ok"
                          ELSE IF f \in kwargs.adopt THEN "ok"
                          ELSE Config__init__(f, kwargs, strict)
                 IN IF r # "ok" THEN r ELSE Walk(Tail(fs))
    IN Walk(FieldsOf(inst))

\* the values a successfully constructed instance tree stores
Constructed(kwargs) == [f \in DataFields |-> convert(f, kwargs.vals[f])]

\* Config._init_options / Section.__init__: the ConfigOptions object an
\* instance uses, named by the instance that created it
\* the object a new instance takes as its __options__: a root makes one of
\* its own (_init_options); a section built by its parent takes the parent's
\* (Section.__init__); a section given as a Section instance is stored as it
\* is (SectionField.__set__) and keeps the object of the tree it was built
\* in, here called "donor"
RECURSIVE NewOptionsOf(_, _)
NewOptionsOf(inst, adopt) ==
    IF inst = "root" THEN "root"
    ELSE IF inst \in adopt THEN "donor"
    ELSE NewOptionsOf(Holder(inst), adopt)

\* the __options__ of the instances of a new tree; every ConfigOptions object
\* starts with the frozen option of the schema
\* the __parent__ a section of a new tree has: Section.__init__ sets it to
\* the instance that builds the section, and nothing sets it again, so a
\* section given as a Section instance keeps the parent it was built by, an
\* instance of the donor tree; the sections below it were built by it
NewParentOf(inst, adopt) ==
    IF NewOptionsOf(inst, adopt) = "donor" /\ NewOptionsOf(Holder(inst), adopt) # "donor"
    THEN DonorOf(Holder(inst))
    ELSE Holder(inst)

NewParents(adopt) == [s \in Sections |-> NewParentOf(s, adopt)]

\* the __options__ of the instances of a new tree and of the parents its
\* sections refer to; every ConfigOptions object starts with the frozen
\* option of the schema
NewOptions(adopt, frozen) ==
    LET par == NewParents(adopt)
        obj == [i \in Instances \cup {par[s] : s \in Sections} |->
                   IF i \in Instances THEN NewOptionsOf(i, adopt) ELSE "donor"]
    IN [obj |-> obj, frozen |-> [o \in {obj[i] : i \in DOMAIN obj} |-> frozen]]

\* section.__parent__, given the parents of the tree
Parent(par, inst) == par[inst]

\* instance.__options__, given the __options__ of the tree
OptionsOf(fr, inst) == fr.obj[inst]

\* instance.__options__.frozen
IsFrozenIn(fr, inst) == fr.frozen[OptionsOf(fr, inst)]

(***************************************************************************)
(* Field writes, as pure functions of an instance tree (vals, fr)          *)
(***************************************************************************)
ReadOnly == "AttributeError: instance is read-only"
NoReplace == "TypeError: Section cannot be replaced"

\* Field.__set__ / SectionField.__set__ on an initialised field
Field__set__(vals, fr, inst, name, value) ==
    IF name \in Sections THEN [err |-> NoReplace, vals |-> vals]
    ELSE IF IsFrozenIn(fr, inst)
         THEN [err |-> "TypeError: frozen", vals |-> vals]
    ELSE IF convert(name, value) = ValueError
         THEN [err |-> ValueError, vals |-> vals]
    ELSE [err |-> "ok", vals |-> [vals EXCEPT ![name] = convert(name, value)]]

\* Config.__setattr__ for a name in __fields__
Config__setattr__(vals, fr, inst, name, value) ==
    IF IsFrozenIn(fr, inst) /\ name \in SeqRange(FieldsOf(inst))
    THEN [err |-> ReadOnly, vals |-> vals]
    ELSE Field__set__(vals, fr, inst, name, value)

\* Config.__getitem__
Config__getitem__(vals, field) == vals[field]

\* Config.__setitem__
Config__setitem__(vals, fr, inst, field, value) ==
    IF field \notin Mapping[inst] THEN [err |-> "KeyError", vals |-> vals]
    ELSE Config__setattr__(vals, fr, Owner(field), field, value)

\* Config.__delitem__
Config__delitem__(vals, fr, inst, field) ==
    IF field \notin Mapping[inst] THEN [err |-> "KeyError", vals |-> vals]
    ELSE Config__setattr__(vals, fr, Owner(field), field, MISSING)

\* Config.__delattr__ for a name of the instance's __fields__: the read-only
\* error when getattr(self, '__frozen__', False) is true; else the
\* descriptor's __delete__: SectionField refuses, and Field.__delete__ reads
\* instance.__options, which the class body mangles to _Field__options:
\* always an AttributeError. dfr is the __frozen__ attribute of every instance.
Config__delattr__(vals, dfr, inst, name) ==
    IF dfr[inst] = "True" /\ name \in SeqRange(FieldsOf(inst))
    THEN [err |-> ReadOnly, vals |-> vals]
    ELSE IF name \in Sections
    THEN [err |-> "TypeError: Section cannot be deleted", vals |-> vals]
    ELSE [err |-> "AttributeError: _Field__options", vals |-> vals]

\* ConfigDef.freeze / ConfigDef.unfreeze: cfg.__frozen__ is set, then
\* Config.freeze (Config.unfreeze) is looked up for the first section of
\* cfg.__sections__, an attribute class Config does not have
NoClassAttr == "AttributeError: type object 'Config' has no attribute"

HasSections(inst) == \E f \in SeqRange(FieldsOf(inst)) : f \in Sections

ConfigDef_freeze(dfr, inst) ==
    [err |-> IF HasSections(inst) THEN NoClassAttr ELSE "ok",
     frozen |-> [dfr EXCEPT ![inst] = "True"]]

ConfigDef_unfreeze(dfr, inst) ==
    [err |-> IF HasSections(inst) THEN NoClassAttr ELSE "ok",
     frozen |-> [dfr EXCEPT ![inst] = "False"]]

(***************************************************************************)
(* The frozen flag: freeze, unfreeze, Config.__freeze__, unfrozen          *)
(***************************************************************************)
\* freeze(cfg): cfg.__options__.frozen = True
freeze(fr, inst) == [fr EXCEPT !.frozen[OptionsOf(fr, inst)] = TRUE]

\* unfreeze(cfg): cfg.__options__.frozen = False
unfreeze(fr, inst) == [fr EXCEPT !.frozen[OptionsOf(fr, inst)] = FALSE]

\* Config.__freeze__(inverse)
Config__freeze__(fr, inst, inverse) ==
    [fr EXCEPT !.frozen[OptionsOf(fr, inst)] = ~inverse]

\* unfrozen(cfg), up to the yield: was_frozen is captured, then unfreeze(cfg)
was_frozen(fr, inst) == IsFrozenIn(fr, inst)

\* the mutant: the finally clause is an else clause, skipped when the block raises
unfrozen_exit_no_finally(fr, block, raised) ==
    IF raised THEN fr ELSE [fr EXCEPT !.frozen[OptionsOf(fr, block.inst)] = block.was_frozen]

\* unfrozen(cfg), after the yield: the finally clause, on either exit path
unfrozen_exit(fr, block, raised) ==
    [fr EXCEPT !.frozen[OptionsOf(fr, block.inst)] = block.was_frozen]

(***************************************************************************)
(* Keyword values used to construct instances and to fill sources          *)
(***************************************************************************)
Kw(t, e, r, x) ==
    [vals |-> [f \in DataFields |->
                  CASE f = "timeout" -> t [] f = "enabled" -> e [] f = "retries" -> r],
     extra |-> x,
     adopt |-> {}]

KwEmpty == Kw(MISSING, MISSING, MISSING, {})
KwLow == Kw("'1'", "0", MISSING, {})
KwMid == Kw("0", MISSING, "1", {})
KwHigh == Kw(MISSING, "'x'", "0", {})
KwExtra == Kw("1", MISSING, MISSING, {"tls"})
KwBad == Kw("'x'", MISSING, MISSING, {})

KwargsPool == {KwEmpty, KwLow, KwMid, KwHigh, KwExtra, KwBad}

\* the sections a constructor is given as Section instances of another tree
\* of the schema (the donor, built from the same keyword values) instead of
\* as keyword dicts: b = Cfg(timeout=..., tls=a.tls)
AdoptPool == SUBSET Sections

NoVals == [f \in DataFields |-> MISSING]

(***************************************************************************)
(* Operations on one Config instance tree                                  *)
(***************************************************************************)
Op(op, inst, field) == [op |-> op, inst |-> inst, field |-> field]

\* no instance of a new tree has a __frozen__ attribute
NoAttr == [i \in Instances |-> "unset"]

InitConfig ==
    /\ defaults \in [frozen : BOOLEAN, strict : BOOLEAN]
    /\ \E kw \in KwargsPool, adopt \in AdoptPool :
          /\ Config__init__("root", kw, defaults.strict) = "ok"
          /\ Config__init__("root", [kw EXCEPT !.adopt = adopt], defaults.strict) = "ok"
          /\ cvals = Constructed(kw)
          /\ __options__ = NewOptions(adopt, defaults.frozen)
          /\ __parent__ = NewParents(adopt)
    /\ blocks = <<>>
    /\ __frozen__ = NoAttr
    /\ sources = <<>>
    /\ configs = <<>>
    /\ merged = [vals |-> NoVals, frozen |-> defaults.frozen]
    /\ last = Op("init", "root", "-")
    /\ err = "ok"

Freeze(inst) ==
    /\ __options__' = freeze(__options__, inst)
    /\ last' = Op("freeze", inst, "-")
    /\ err' = "ok"
    /\ UNCHANGED <<defaults, cvals, blocks, __frozen__, __parent__, engVars>>

Unfreeze(inst) ==
    /\ __options__' = unfreeze(__options__, inst)
    /\ last' = Op("unfreeze", inst, "-")
    /\ err' = "ok"
    /\ UNCHANGED <<defaults, cvals, blocks, __frozen__, __parent__, engVars>>

DunderFreeze(inst, inverse) ==
    /\ __options__' = Config__freeze__(__options__, inst, inverse)
    /\ last' = Op("__freeze__", inst, "-")
    /\ err' = "ok"
    /\ UNCHANGED <<defaults, cvals, blocks, __frozen__, __parent__, engVars>>

\* entering `with unfrozen(inst)`; entered is the flag before entry
UnfrozenEnter(inst) ==
    /\ Len(blocks) < MaxBlocks
    /\ blocks' = <<[inst |-> inst,
                    was_frozen |-> was_frozen(__options__, inst),
                    entered |-> IsFrozenIn(__options__, inst)]>> \o blocks
    /\ __options__' = unfreeze(__options__, inst)
    /\ last' = Op("unfrozen_enter", inst, "-")
    /\ err' = "ok"
    /\ UNCHANGED <<defaults, cvals, __frozen__, __parent__, engVars>>

\* leaving the innermost block, normally or because its body raised
UnfrozenExit(raised) ==
    /\ blocks # <<>>
    /\ __options__' = unfrozen_exit(__options__, Head(blocks), raised)
    /\ blocks' = Tail(blocks)
    /\ last' = Op("unfrozen_exit", Head(blocks).inst, "-")
    /\ err' = IF raised THEN "raised" ELSE "ok"
    /\ UNCHANGED <<defaults, cvals, __frozen__, __parent__, engVars>>

Write(op, inst, field, r) ==
    /\ cvals' = r.vals
    /\ err' = r.err
    /\ last' = Op(op, inst, field)
    /\ UNCHANGED <<defaults, __options__, blocks, __frozen__, __parent__, engVars>>

\* instance.name = value
SetAttr(inst, name, value) ==
    /\ name \in SeqRange(FieldsOf(inst))
    /\ Write("setattr", inst, name, Config__setattr__(cvals, __options__, inst, name, value))

\* instance[field] = value
SetItem(inst, field, value) ==
    Write("setitem", inst, field, Config__setitem__(cvals, __options__, inst, field, value))

\* del instance[field]
DelItem(inst, field) ==
    Write("delitem", inst, field, Config__delitem__(cvals, __options__, inst, field))

\* del instance.name
DelAttr(inst, name) ==
    /\ name \in SeqRange(FieldsOf(inst))
    /\ Write("delattr", inst, name, Config__delattr__(cvals, __frozen__, inst, name))

\* ConfigDef.freeze(inst)
ConfigDefFreeze(inst) ==
    /\ __frozen__' = ConfigDef_freeze(__frozen__, inst).frozen
    /\ err' = ConfigDef_freeze(__frozen__, inst).err
    /\ last' = Op("ConfigDef.freeze", inst, "-")
    /\ UNCHANGED <<defaults, cvals, __options__, blocks, __parent__, engVars>>

\* ConfigDef.unfreeze(inst)
ConfigDefUnfreeze(inst) ==
    /\ __frozen__' = ConfigDef_unfreeze(__frozen__, inst).frozen
    /\ err' = ConfigDef_unfreeze(__frozen__, inst).err
    /\ last' = Op("ConfigDef.unfreeze", inst, "-")
    /\ UNCHANGED <<defaults, cvals, __options__, blocks, __parent__, engVars>>

AllFields == DataFields \cup Sections

\* writes and whole-tree freezing on an instance tree
NextConfig ==
    \/ \E inst \in Instances : Freeze(inst)
    \/ \E inst \in Instances : Unfreeze(inst)
    \/ \E inst \in Instances, name \in AllFields, value \in PyValues \cup {MISSING} :
          SetAttr(inst, name, value)
    \/ \E inst \in Instances, field \in AllFields, value \in PyValues \cup {MISSING} :
          SetItem(inst, field, value)
    \/ \E inst \in Instances, field \in AllFields : DelItem(inst, field)

SpecConfig == InitConfig /\ [][NextConfig]_vars

\* attribute deletion and the __frozen__ attribute it reads, next to the
\* frozen flag of the options, which it does not read
NextDelete ==
    \/ \E inst \in Instances : Freeze(inst)
    \/ \E inst \in Instances : Unfreeze(inst)
    \/ \E inst \in Instances : ConfigDefFreeze(inst)
    \/ \E inst \in Instances : ConfigDefUnfreeze(inst)
    \/ \E inst \in Instances, name \in AllFields : DelAttr(inst, name)

SpecDelete == InitConfig /\ [][NextDelete]_vars

\* the frozen-state machine: freezing operations and unfrozen blocks
NextFrozen ==
    \/ \E inst \in Instances : Freeze(inst)
    \/ \E inst \in Instances : Unfreeze(inst)
    \/ \E inst \in Instances, inverse \in BOOLEAN : DunderFreeze(inst, inverse)
    \/ \E inst \in Instances : UnfrozenEnter(inst)
    \/ \E raised \in BOOLEAN : UnfrozenExit(raised)

SpecFrozen == InitConfig /\ [][NextFrozen]_vars

(***************************************************************************)
(* Construction as an operation: cfg = Cfg(kwargs...) on a declared schema *)
(***************************************************************************)
\* keyword values given to the constructor: supplied or not, convertible or
\* not, with an undeclared name in the keyword dict of any of the instances
ConstructArgs ==
    { Kw(t, e, r, x) : t \in {MISSING, "1", "'x'"}, e \in {MISSING, "0"},
                       r \in {MISSING, "'1'", "'x'"}, x \in SUBSET Instances }

\* the schema is declared and nothing is constructed yet
InitSchema ==
    /\ defaults \in [frozen : BOOLEAN, strict : BOOLEAN]
    /\ cvals = NoVals
    /\ __options__ = NewOptions({}, defaults.frozen)
    /\ __parent__ = NewParents({})
    /\ blocks = <<>>
    /\ __frozen__ = NoAttr
    /\ sources = <<>>
    /\ configs = <<>>
    /\ merged = [vals |-> NoVals, frozen |-> defaults.frozen]
    /\ last = Op("schema", "-", "-")
    /\ err = "ok"

\* cfg = Cfg(kwargs...): cfg is bound to the new instance tree only when the
\* constructor returns
Construct(kwargs) ==
    /\ err' = Config__init__("root", kwargs, defaults.strict)
    /\ cvals' = IF err' = "ok" THEN Constructed(kwargs) ELSE cvals
    /\ __options__' = IF err' = "ok" THEN NewOptions(kwargs.adopt, defaults.frozen)
                    ELSE __options__
    /\ __parent__' = IF err' = "ok" THEN NewParents(kwargs.adopt) ELSE __parent__
    /\ __frozen__' = IF err' = "ok" THEN NoAttr ELSE __frozen__
    /\ last' = Op("construct", "root", kwargs)
    /\ UNCHANGED <<defaults, blocks, engVars>>

NextConstruct == \E kwargs \in ConstructArgs : Construct(kwargs)

SpecConstruct == InitSchema /\ [][NextConstruct]_vars

(***************************************************************************)
(* Claims about one instance tree                                          *)
(***************************************************************************)
FieldWrites == {"setattr", "setitem", "delitem"}

\* C2 as claimed: on a frozen instance (root or section) an attribute
\* assignment, an item assignment or an item deletion of a field the
\* instance holds fails with the read-only error and leaves every stored
\* value as it was.
C2_FrozenRejectsWrites ==
    [][(/\ last'.op \in FieldWrites
        /\ last'.field \in FieldMapping(last'.inst)
        /\ IsFrozenIn(__options__, last'.inst))
       => (err' = ReadOnly /\ cvals' = cvals)]_vars

\* C3: inside `with unfrozen(cfg)` the instance is mutable, and on leaving the
\* block, normally or by an exception, its frozen flag is the one it had
\* just before the block was entered (nested blocks and sections included).
C3_UnfrozenRestores ==
    [][/\ (last'.op = "unfrozen_enter"
              => ~IsFrozenIn(__options__', last'.inst))
       /\ (last'.op = "unfrozen_exit" /\ blocks # <<>>
              => IsFrozenIn(__options__', Head(blocks).inst) = Head(blocks).entered)
      ]_vars

\* a block entered on a section inside another block was left by an
\* exception and the instance is frozen again
C3_Witness ==
    /\ last = Op("unfrozen_exit", "cert", "-")
    /\ err = "raised"
    /\ Len(blocks) = 1
    /\ IsFrozenIn(__options__, "cert")

\* the freezing operations: freeze, unfreeze, Config.__freeze__, and the
\* entry and exit of an unfrozen block
FreezeOps == {"freeze", "unfreeze", "__freeze__", "unfrozen_enter", "unfrozen_exit"}

\* C4 as claimed: after a freeze / unfreeze / unfrozen operation applied to
\* the root, every section reachable from the root, at any depth, has the
\* frozen flag of the root: frozen when the root was frozen, mutable when it
\* was unfrozen.
C4_SectionsFollowRoot ==
    [][(last'.op \in FreezeOps /\ last'.inst = "root")
          => \A s \in Sections :
                IsFrozenIn(__options__', s) = IsFrozenIn(__options__', "root")]_vars

\* C5 as claimed: unfreeze(section) on a frozen tree leaves the parent and
\* the sibling sections frozen, and they still reject field writes.
C5_UnfreezeSectionIsLocal ==
    [][(/\ last'.op = "unfreeze"
        /\ last'.inst \in Sections
        /\ \A i \in DOMAIN __options__.obj : IsFrozenIn(__options__, i))
       => (\A i \in DOMAIN __options__.obj :
              (\/ i = Parent(__parent__, last'.inst)
               \/ /\ i \in Sections
                  /\ i # last'.inst
                  /\ Parent(__parent__, i) = Parent(__parent__, last'.inst))
              => /\ IsFrozenIn(__options__', i)
                 /\ i \in Instances
                      => \A f \in SeqRange(FieldsOf(i)) \cap DataFields :
                            Config__setattr__(cvals', __options__', i, f, "1").err = ReadOnly)
      ]_vars

(***************************************************************************)
(* Sources                                                                 *)
(***************************************************************************)
Src(name, kind, kw) == [name |-> name, kind |-> kind, kwargs |-> kw]

\* DataSource / CustomSource objects the program may be given; two of them
\* are named "a", one holds a value int() rejects
SourcePool ==
    { Src("a", "data", KwLow),
      Src("a", "data", KwHigh),
      Src("custom", "custom", Kw("0", "1", MISSING, {})),
      Src("bad", "data", KwBad) }

\* DataSource.load / CustomSource.load: config_cls(**data), which CustomSource
\* unfreezes; the exception of the construction is the exception of the load
load(src, dflt) ==
    LET e == Config__init__("root", src.kwargs, dflt.strict)
    IN IF e # "ok" THEN [err |-> e]
       ELSE [err |-> "ok",
             cfg |-> [vals |-> Constructed(src.kwargs),
                      frozen |-> IF src.kind = "custom" THEN FALSE ELSE dflt.frozen]]

\* the __options__ of a cached or merged instance tree: built by config_cls
\* from keyword values, every section on the root's ConfigOptions object
FlagsOf(cfg) == NewOptions({}, cfg.frozen)

(***************************************************************************)
(* Python dict (insertion-ordered) and list helpers                        *)
(***************************************************************************)
Names(srcs) == {srcs[i].name : i \in 1..Len(srcs)}
Keys(d) == {d[i].name : i \in 1..Len(d)}
DictGet(d, name) == d[CHOOSE i \in 1..Len(d) : d[i].name = name].cfg

\* d[name] = cfg: a new key goes last, an old key keeps its place
DictPut(d, name, cfg) ==
    IF name \in Keys(d)
    THEN [i \in 1..Len(d) |-> IF d[i].name = name THEN [name |-> name, cfg |-> cfg] ELSE d[i]]
    ELSE Append(d, [name |-> name, cfg |-> cfg])

\* del d[name]
DictDel(d, name) == SelectSeq(d, LAMBDA e : e.name # name)

\* list.insert(index, x): a negative index counts from the end, and the
\* position is clamped to the list
ListInsert(s, index, x) ==
    LET n == Len(s)
        j == IF index < 0 THEN (IF index + n < 0 THEN 0 ELSE index + n)
             ELSE IF index > n THEN n ELSE index
    IN SubSeq(s, 1, j) \o <<x>> \o SubSeq(s, j + 1, n)

\* del list[i] (1-based here)
ListDel(s, i) == SubSeq(s, 1, i - 1) \o SubSeq(s, i + 1, Len(s))

(***************************************************************************)
(* MultiSourceConfig                                                       *)
(***************************************************************************)
\* the inner loop of __build_merged__: the first value that is not MISSING
\* among reversed(self.__configs__.values())
RECURSIVE FirstPresent(_, _, _)
FirstPresent(cfgs, i, field) ==
    IF i = 0 THEN MISSING
    ELSE IF Config__getitem__(cfgs[i].cfg.vals, field) # MISSING
         THEN Config__getitem__(cfgs[i].cfg.vals, field)
    ELSE FirstPresent(cfgs, i - 1, field)

\* MultiSourceConfig.__build_merged__: a fresh instance, unfrozen while every
\* data field of recurse_fields is set from the caches, then frozen as the
\* schema defaults say
RECURSIVE MergeWalk(_, _, _)
MergeWalk(cfgs, paths, vals) ==
    IF paths = <<>> THEN vals
    ELSE LET f == Head(paths)
             v == FirstPresent(cfgs, Len(cfgs), f)
             fresh == NewOptions({}, FALSE)
         IN MergeWalk(cfgs, Tail(paths),
                      IF v = MISSING THEN vals
                      ELSE Config__setitem__(vals, fresh, "root", f, v).vals)

__build_merged__(cfgs, dflt) ==
    [vals |-> MergeWalk(cfgs, DataPaths, NoVals),
     frozen |-> dflt.frozen]

\* the mutant: the flag of the previous merged instance is not carried over
update_merged_default_flag(cfgs, mrg, dflt) == __build_merged__(cfgs, dflt)

\* MultiSourceConfig.__update_merged__
__update_merged__(cfgs, mrg, dflt) ==
    [__build_merged__(cfgs, dflt) EXCEPT !.frozen = mrg.frozen]

\* MultiSourceConfig.__build_custom__
RECURSIVE CustomWalk(_, _, _, _)
CustomWalk(mrg, rebuilt, paths, vals) ==
    IF paths = <<>> THEN vals
    ELSE LET f == Head(paths)
             fresh == NewOptions({}, FALSE)
         IN CustomWalk(mrg, rebuilt, Tail(paths),
                       IF Config__getitem__(mrg.vals, f) # Config__getitem__(rebuilt.vals, f)
                       THEN Config__setitem__(vals, fresh, "root", f, mrg.vals[f]).vals
                       ELSE vals)

__build_custom__(cfgs, mrg, dflt) ==
    [vals |-> CustomWalk(mrg, __build_merged__(cfgs, dflt), DataPaths, NoVals),
     frozen |-> dflt.frozen]

\* the dict comprehensions of __init__ and __add_source__: every source of
\* the list in order, its cached instance if `old` has one, else its load;
\* the first load that raises ends it
RECURSIVE LoadAll(_, _, _, _)
LoadAll(srcs, old, acc, dflt) ==
    IF srcs = <<>> THEN [err |-> "ok", configs |-> acc]
    ELSE LET src == Head(srcs)
         IN IF src.name \in Keys(old)
            THEN LoadAll(Tail(srcs), old, DictPut(acc, src.name, DictGet(old, src.name)), dflt)
            ELSE LET l == load(src, dflt)
                 IN IF l.err # "ok" THEN [err |-> l.err, configs |-> acc]
                    ELSE LoadAll(Tail(srcs), old, DictPut(acc, src.name, l.cfg), dflt)

\* MultiSourceConfig.__init__
MultiSourceConfig__init__(srcs, mutable, dflt) ==
    LET c == LoadAll(srcs, <<>>, <<>>, dflt)
    IN IF c.err # "ok" THEN [err |-> c.err]
       ELSE [err |-> "ok", sources |-> srcs, configs |-> c.configs,
             merged |-> [__build_merged__(c.configs, dflt) EXCEPT !.frozen = ~mutable]]

Duplicate == "ValueError: Source is already defined"
NotFound == "ValueError: No source with name"

Result(e, srcs, cfgs, mrg) ==
    [err |-> e, sources |-> srcs, configs |-> cfgs, merged |-> mrg]

\* the mutant: the source is put in the list before its name is checked
add_source_insert_first(srcs, cfgs, mrg, source, index, dflt) ==
    LET inserted == IF index = <<>> THEN Append(srcs, source)
                    ELSE ListInsert(srcs, index[1], source)
    IN IF source.name \in Names(srcs) THEN Result(Duplicate, inserted, cfgs, mrg)
       ELSE LET c == LoadAll(inserted, cfgs, <<>>, dflt)
            IN IF c.err # "ok" THEN Result(c.err, inserted, cfgs, mrg)
               ELSE Result("ok", inserted, c.configs,
                           __update_merged__(c.configs, mrg, dflt))

\* MultiSourceConfig.__add_source__; index is <<>> for None, <<k>> for k
__add_source__(srcs, cfgs, mrg, source, index, dflt) ==
    IF source.name \in Names(srcs) THEN Result(Duplicate, srcs, cfgs, mrg)
    ELSE LET inserted == IF index = <<>> THEN Append(srcs, source)
                         ELSE ListInsert(srcs, index[1], source)
             c == LoadAll(inserted, cfgs, <<>>, dflt)
         IN IF c.err # "ok" THEN Result(c.err, inserted, cfgs, mrg)
            ELSE Result("ok", inserted, c.configs,
                        __update_merged__(c.configs, mrg, dflt))

\* MultiSourceConfig.__del_source__
__del_source__(srcs, cfgs, mrg, name, dflt) ==
    IF name \notin Names(srcs) THEN Result(NotFound, srcs, cfgs, mrg)
    ELSE LET i == CHOOSE k \in 1..Len(srcs) :
                     /\ srcs[k].name = name
                     /\ \A j \in 1..(k - 1) : srcs[j].name # name
             removed == ListDel(srcs, i)
         IN IF name \notin Keys(cfgs) THEN Result("KeyError", removed, cfgs, mrg)
            ELSE Result("ok", removed, DictDel(cfgs, name),
                        __update_merged__(DictDel(cfgs, name), mrg, dflt))

NoGet == "AttributeError: no attribute 'get'"

\* MultiSourceConfig.__update_attribute__; names is the set of source names
\* given, empty when none is. For the first listed source that is named the
\* cache is indexed by its name (KeyError when it has no entry), then
\* src.get is called, a method no Source class defines; both raise inside or
\* before the unfrozen block, whose finally clause restores the cached
\* instance's flag. With no source to refresh, the field is merged again
\* into the merged instance, which is unfrozen for the time of the write.
__update_attribute__(srcs, cfgs, mrg, field, names) ==
    LET named == SelectSeq(srcs, LAMBDA src : names = {} \/ src.name \in names)
        fresh == NewOptions({}, FALSE)
    IN IF named # <<>>
       THEN IF Head(named).name \notin Keys(cfgs)
            THEN Result("KeyError", srcs, cfgs, mrg)
            ELSE Result(NoGet, srcs, cfgs, mrg)
       ELSE Result("ok", srcs, cfgs,
                   [mrg EXCEPT !.vals =
                       Config__setitem__(mrg.vals, fresh, "root", field,
                                         FirstPresent(cfgs, Len(cfgs), field)).vals])

\* MultiSourceConfig.__setattr__ for a key that is no dunder name
MultiSourceConfig__setattr__(mrg, key, value) ==
    Config__setattr__(mrg.vals, FlagsOf(mrg), "root", key, value)

\* MultiSourceConfig.__setitem__
MultiSourceConfig__setitem__(mrg, field, value) ==
    Config__setitem__(mrg.vals, FlagsOf(mrg), "root", field, value)

\* MultiSourceConfig.__delitem__
MultiSourceConfig__delitem__(mrg, field) ==
    Config__delitem__(mrg.vals, FlagsOf(mrg), "root", field)

(***************************************************************************)
(* The engine as a state machine                                           *)
(***************************************************************************)
SourceTuples == UNION {[1..n -> SourcePool] : n \in 0..MaxSources}
IndexArgs == {<<>>} \cup {<<k>> : k \in (-1)..MaxSources}
SourceNames == {src.name : src \in SourcePool} \cup {"none"}

\* the data fields whose merged value is not what a rebuild would give
Edited(cfgs, mrg, dflt) ==
    {f \in DataFields : mrg.vals[f] # __build_merged__(cfgs, dflt).vals[f]}

Init ==
    /\ defaults \in [frozen : BOOLEAN, strict : {FALSE}]
    /\ \E srcs \in SourceTuples, mutable \in BOOLEAN :
          LET r == MultiSourceConfig__init__(srcs, mutable, defaults)
          IN /\ r.err = "ok"
             /\ sources = r.sources
             /\ configs = r.configs
             /\ merged = r.merged
             /\ last = Op("init", IF mutable THEN "mutable" ELSE "frozen", "-")
    /\ err = "ok"
    /\ cvals = NoVals
    /\ __options__ = NewOptions({}, defaults.frozen)
    /\ __parent__ = NewParents({})
    /\ blocks = <<>>
    /\ __frozen__ = NoAttr

Apply(r) ==
    /\ sources' = r.sources
    /\ configs' = r.configs
    /\ merged' = r.merged
    /\ err' = r.err
    /\ UNCHANGED <<defaults, cfgVars>>

\* engine.__add_source__(source, index)
AddSource(source, index) ==
    /\ Len(sources) < MaxSources \/ source.name \in Names(sources)
    /\ Apply(__add_source__(sources, configs, merged, source, index, defaults))
    /\ last' = Op("add_source", "-", "-")

\* engine.__del_source__(name)
DelSource(name) ==
    /\ Apply(__del_source__(sources, configs, merged, name, defaults))
    /\ last' = Op("del_source", "-", "-")

\* engine.__update_attribute__(field, *names)
UpdateAttribute(field, names) ==
    /\ Apply(__update_attribute__(sources, configs, merged, field, names))
    /\ last' = Op("update_attribute", "-", "-")

UserWrite(op, r) ==
    /\ Cardinality(Edited(configs, [merged EXCEPT !.vals = r.vals], defaults)) <= MaxEdits
    /\ merged' = [merged EXCEPT !.vals = r.vals]
    /\ err' = r.err
    /\ last' = Op(op, "-", "-")
    /\ UNCHANGED <<defaults, cfgVars, sources, configs>>

\* engine.key = value
EngineSetAttr(key, value) ==
    /\ key \in SeqRange(FieldsOf("root"))
    /\ UserWrite("setattr", MultiSourceConfig__setattr__(merged, key, value))

\* engine[field] = value
EngineSetItem(field, value) ==
    /\ field \in Mapping["root"]
    /\ UserWrite("setitem", MultiSourceConfig__setitem__(merged, field, value))

\* del engine[field]
EngineDelItem(field) ==
    /\ field \in Mapping["root"]
    /\ UserWrite("delitem", MultiSourceConfig__delitem__(merged, field))

Next ==
    \/ \E source \in SourcePool, index \in IndexArgs : AddSource(source, index)
    \/ \E name \in SourceNames : DelSource(name)
    \/ \E key \in AllFields, value \in PyValues : EngineSetAttr(key, value)
    \/ \E field \in DataFields, value \in PyValues : EngineSetItem(field, value)
    \/ \E field \in DataFields : EngineDelItem(field)
    \/ \E field \in DataFields, names \in SUBSET SourceNames : UpdateAttribute(field, names)

Spec == Init /\ [][Next]_vars

(***************************************************************************)
(* Claims about the engine                                                 *)
(***************************************************************************)
MaxOf(S) == CHOOSE m \in S : \A k \in S : k <= m

\* the value the precedence rule gives a field over a list of instances
\* (an entry without an instance has `has` false)
Precedence(insts, f) ==
    LET present == {i \in 1..Len(insts) : insts[i].has /\ insts[i].vals[f] # MISSING}
    IN IF present = {} THEN MISSING ELSE insts[MaxOf(present)].vals[f]

\* the instance each listed source loads, in list order
LoadedBySources ==
    [i \in 1..Len(sources) |->
        IF load(sources[i], defaults).err = "ok"
        THEN [has |-> TRUE, vals |-> load(sources[i], defaults).cfg.vals]
        ELSE [has |-> FALSE, vals |-> NoVals]]

\* the cached instance of each listed source, in list order
CachedBySources(srcs, cfgs) ==
    [i \in 1..Len(srcs) |->
        IF srcs[i].name \in Keys(cfgs)
        THEN [has |-> TRUE, vals |-> DictGet(cfgs, srcs[i].name).vals]
        ELSE [has |-> FALSE, vals |-> NoVals]]

Rebuilt == last.op \in {"init", "add_source", "del_source"} /\ err = "ok"

\* C1 as claimed: after construction and after every rebuild, each data
\* field of the merged instance holds the value of the highest-indexed
\* source whose loaded instance has one (0 and False count), else MISSING.
C1_MergedIsHighestPresent ==
    Rebuilt => \A f \in DataFields : merged.vals[f] = Precedence(LoadedBySources, f)

HasCustom == "custom" \in Names(sources) /\ "custom" \in Keys(configs)

\* C6 as claimed: __build_custom__ records exactly the merged values that
\* differ from the merge without the custom layer, and merging the other
\* layers with that diff as the custom layer gives the merged instance back.
C6_BuildCustomRoundTrip ==
    HasCustom =>
        LET without == __build_merged__(DictDel(configs, "custom"), defaults).vals
            diff == __build_custom__(configs, merged, defaults)
        IN /\ \A f \in DataFields :
                 diff.vals[f] = IF merged.vals[f] # without[f] THEN merged.vals[f] ELSE MISSING
           /\ __build_merged__(DictPut(configs, "custom", diff), defaults).vals = merged.vals

\* C7 as claimed: from any reachable state, adding a source with a new name
\* and removing it again gives back the merged instance, the source list and
\* the cache.
C7_AddRemoveRestores ==
    \A source \in SourcePool, index \in IndexArgs :
        source.name \notin Names(sources) =>
            \A a \in {__add_source__(sources, configs, merged, source, index, defaults)} :
                __del_source__(a.sources, a.configs, a.merged, source.name, defaults)
                    = Result(__del_source__(a.sources, a.configs, a.merged, source.name,
                                            defaults).err,
                             sources, configs, merged)

EngineWrites == {"setattr", "setitem"}

\* C8 as claimed: the merged instance is frozen unless the engine was built
\* with mutable=True, and then a write through the engine lands in the
\* custom source's cached instance as well as in the merged view.
C8_WritesReachCustom ==
    /\ (last.op = "init" => merged.frozen = (last.inst = "frozen"))
    /\ [][(last'.op \in EngineWrites /\ err' = "ok" /\ HasCustom)
          => \A f \in DataFields :
                merged'.vals[f] # merged.vals[f]
                => DictGet(configs', "custom").vals[f] = merged'.vals[f]]_vars

\* C9: __add_source__ with a name already in the list raises the duplicate
\* error and changes nothing; with a new name the source is in the list at
\* the given index, or last when the index is None, the others keeping
\* their order.
C9_AddSource ==
    \A source \in SourcePool, index \in IndexArgs :
        \A r \in {__add_source__(sources, configs, merged, source, index, defaults)} :
        LET n == Len(sources)
        IN IF source.name \in Names(sources)
           THEN r = Result(Duplicate, sources, configs, merged)
           ELSE /\ r.err # Duplicate
                /\ Len(r.sources) = n + 1
                /\ index = <<>> => r.sources = Append(sources, source)
                /\ (index # <<>> /\ index[1] \in 0..n)
                      => /\ r.sources[index[1] + 1] = source
                         /\ ListDel(r.sources, index[1] + 1) = sources

\* a duplicate was refused on a list of two
C9_Witness ==
    /\ last.op = "add_source"
    /\ err = Duplicate
    /\ Len(sources) = 2

\* C10 as claimed: __del_source__ of a name not in the list raises the
\* not-found error and changes nothing; otherwise it returns, the name is in
\* neither the list nor the cache, and the merged instance is the precedence
\* merge of the cached instances of the sources that remain.
C10_DelSource ==
    \A name \in SourceNames :
        \A r \in {__del_source__(sources, configs, merged, name, defaults)} :
           IF name \notin Names(sources)
           THEN r = Result(NotFound, sources, configs, merged)
           ELSE /\ r.err = "ok"
                /\ name \notin Names(r.sources)
                /\ name \notin Keys(r.configs)
                /\ \A f \in DataFields :
                      r.merged.vals[f] = Precedence(CachedBySources(r.sources, r.configs), f)

(***************************************************************************)
(* Claims about construction                                               *)
(***************************************************************************)
\* every supplied value is one its field's type accepts
Convertible(kwargs) == \A f \in DataFields : convert(f, kwargs.vals[f]) # ValueError

\* C11 as claimed: in strict mode Cfg(values...) fails with the unknown-field
\* error whenever values holds an undeclared name, at the root or in a
\* section; in non-strict mode the same call succeeds and every data field
\* not supplied holds MISSING.
C11_StrictRejectsUnknown ==
    (last.op = "construct" /\ last.field.extra # {})
        => IF defaults.strict THEN err = "TypeError"
           ELSE /\ err = "ok"
                /\ \A f \in DataFields : last.field.vals[f] = MISSING => cvals[f] = MISSING

\* C11 amended: the above for the calls in which every supplied value
\* converts to its field's type; a value that does not convert makes the call
\* fail in either mode, and with the conversion error when it is reached
\* before the check for undeclared names.
C11_StrictRejectsUnknownConvertible ==
    (last.op = "construct" /\ last.field.extra # {})
        => /\ Convertible(last.field)
              => IF defaults.strict THEN err = "TypeError"
                 ELSE /\ err = "ok"
                      /\ \A f \in DataFields :
                            last.field.vals[f] = MISSING => cvals[f] = MISSING
           /\ err # "ok" => err \in {"TypeError", "ValueError"}
           /\ ~Convertible(last.field) => err # "ok"
           /\ (defaults.strict /\ last.field.extra = {"root"} /\ ~Convertible(last.field))
                 => err = "ValueError"

\* a strict root refused an undeclared name given only to a nested section
C11_Witness ==
    /\ last.op = "construct"
    /\ defaults.strict
    /\ last.field.extra = {"cert"}
    /\ Convertible(last.field)
    /\ err = "TypeError"

(***************************************************************************)
(* Claims about the engine, continued                                      *)
(***************************************************************************)
\* C12 as claimed: __update_attribute__(field, names...) returns; afterwards
\* the merged value of the field is what a full __build_merged__ over the
\* caches gives for it, every other merged field is unchanged, the cached
\* instances of the sources not named are unchanged, and the frozen flags of
\* the merged instance and of every cached instance are as before.
C12_UpdateAttribute ==
    \A field \in DataFields, names \in SUBSET SourceNames :
        \A r \in {__update_attribute__(sources, configs, merged, field, names)} :
           /\ r.err = "ok"
           /\ r.merged.vals[field] = __build_merged__(r.configs, defaults).vals[field]
           /\ \A f \in DataFields \ {field} : r.merged.vals[f] = merged.vals[f]
           /\ Keys(r.configs) = Keys(configs)
           /\ \A n \in Keys(configs) :
                 /\ DictGet(r.configs, n).frozen = DictGet(configs, n).frozen
                 /\ (names # {} /\ n \notin names) => DictGet(r.configs, n) = DictGet(configs, n)
           /\ r.merged.frozen = merged.frozen

\* C13: __add_source__ and __del_source__ leave the engine with a merged
\* instance whose frozen flag is the one the merged instance had right before
\* the call, frozen or mutable, whatever the schema's default frozen option
\* is; when the call returns, that instance is the newly built merge of the
\* caches.
C13_RebuildKeepsFrozenFlag ==
    [][last'.op \in {"add_source", "del_source"}
          => /\ merged'.frozen = merged.frozen
             /\ err' = "ok" => merged'.vals = __build_merged__(configs', defaults).vals]_vars

\* a source was added to or removed from an engine whose merged instance is
\* frozen although the schema default is mutable
C13_Witness ==
    /\ last.op \in {"add_source", "del_source"}
    /\ err = "ok"
    /\ merged.frozen
    /\ ~defaults.frozen

\* C14 as claimed: after construction with any tuple of sources and after any
\* sequence of __add_source__ / __del_source__ calls, the keys of the cache,
\* in iteration order, are the names of the listed sources, in list order.
C14_CacheMatchesList ==
    [i \in 1..Len(configs) |-> configs[i].name] = [i \in 1..Len(sources) |-> sources[i].name]

\* C15 as claimed: when the load of the source given to __add_source__
\* raises, the call raises that error and the source list, the cache and the
\* merged instance are as before the call, so that adding a source of that
\* name again is not refused as a duplicate.
C15_AddSourceAtomic ==
    \A source \in SourcePool, index \in IndexArgs :
        (source.name \notin Names(sources) /\ load(source, defaults).err # "ok")
            => \A r \in {__add_source__(sources, configs, merged, source, index, defaults)} :
                  /\ r.err = load(source, defaults).err
                  /\ r.sources = sources
                  /\ r.configs = configs
                  /\ r.merged = merged
                  /\ __add_source__(r.sources, r.configs, r.merged,
                                    source, index, defaults).err # Duplicate
====
